---------------------------- MODULE Spec2Model ----------------------------
(***************************************************************************)
(* Model of the physical-sanity validation scripts                         *)
(*   scripts/validation/generate_section_iv_artifacts.py                   *)
(*   scripts/validation/sanity_check_parquet_physical_v1.py                *)
(*                                                                         *)
(* A DataFrame is a sequence of rows (records) in storage order.  A float  *)
(* is an exact rational [n, d] in lowest terms with d > 0; NaN is the      *)
(* value with d = 0.  A square root is kept by its radicand, so that the   *)
(* order of standard deviations and the value of a correlation stay exact. *)
(***************************************************************************)
EXTENDS Integers, Sequences, FiniteSets, TLC

VARIABLES
    pc,              \* position of the running script
    meas_dis,        \* discharge samples (measurements_raw, operation_type = discharge)
    meas_columns,    \* the column names of measurements_raw
    imp,             \* impedance_raw rows
    rep_cell,        \* --rep_cell
    cycle_stats,     \* result of discharge_cycle_level_stats
    rep_cycle_idx,   \* first result of pick_representative_discharge_cycle
    rep_df,          \* second result of pick_representative_discharge_cycle
    cell_summary,    \* result of build_cell_summary_table
    global_evidence, \* the record written to evidence_section_iv.json
    saved,           \* the artifacts written so far
    error,           \* the exception that ended the run, if any
    time_viol,       \* result of time_monotonicity_violations
    imp_pos,         \* result of impedance_positivity
    sanity,          \* what the sanity script has printed (CHECK 2, CHECK 6)
    x,               \* first argument of spearman_corr
    y,               \* second argument of spearman_corr
    corr             \* result of spearman_corr

vars == <<pc, meas_dis, meas_columns, imp, rep_cell, cycle_stats, rep_cycle_idx, rep_df,
          cell_summary, global_evidence, saved, error, time_viol, imp_pos,
          sanity, x, y, corr>>

(***************************************************************************)
(* Bounds of the model.                                                    *)
(***************************************************************************)
MaxSamples == 3

MaxImpRows == 3

MaxPoints == 4

(***************************************************************************)
(* Exact arithmetic standing for float64.                                  *)
(***************************************************************************)
Abs(a) == IF a < 0 THEN -a ELSE a

RECURSIVE GCD(_, _)
GCD(a, b) == IF b = 0 THEN a ELSE GCD(b, a % b)

NaN == [n |-> 0, d |-> 0]

IsNaN(a) == a.d = 0

\* n/d in lowest terms with a positive denominator; d = 0 gives NaN.
Rat(n, d) ==
    IF d = 0 THEN NaN
    ELSE LET g == GCD(Abs(n), Abs(d))
             s == IF d < 0 THEN -1 ELSE 1
         IN  [n |-> (s * n) \div g, d |-> (s * d) \div g]

Int2Rat(k) == [n |-> k, d |-> 1]

RAdd(a, b) == IF IsNaN(a) \/ IsNaN(b) THEN NaN ELSE Rat(a.n * b.d + b.n * a.d, a.d * b.d)

RSub(a, b) == IF IsNaN(a) \/ IsNaN(b) THEN NaN ELSE Rat(a.n * b.d - b.n * a.d, a.d * b.d)

RMul(a, b) == IF IsNaN(a) \/ IsNaN(b) THEN NaN ELSE Rat(a.n * b.n, a.d * b.d)

\* a / b; the callers never divide by zero.
RDiv(a, b) == IF IsNaN(a) \/ IsNaN(b) THEN NaN ELSE Rat(a.n * b.d, a.d * b.n)

\* Float comparisons: every comparison with NaN is false.
RLt(a, b) == ~IsNaN(a) /\ ~IsNaN(b) /\ a.n * b.d < b.n * a.d

RLe(a, b) == ~IsNaN(a) /\ ~IsNaN(b) /\ a.n * b.d <= b.n * a.d

REq(a, b) == ~IsNaN(a) /\ ~IsNaN(b) /\ a.n * b.d = b.n * a.d

Zero == Int2Rat(0)

One == Int2Rat(1)

RECURSIVE RSum(_)
RSum(s) == IF s = <<>> THEN Zero ELSE RAdd(Head(s), RSum(Tail(s)))

RECURSIVE ISum(_)
ISum(s) == IF s = <<>> THEN 0 ELSE Head(s) + ISum(Tail(s))

\* s without its NaN entries (skipna, nanmax, nanmedian).
DropNaN(s) == SelectSeq(s, LAMBDA a : ~IsNaN(a))

Range(s) == {s[k] : k \in 1..Len(s)}

(***************************************************************************)
(* The input domain.  cell_id is a string; CellIds lists the identifiers   *)
(* in the order Python compares strings.                                   *)
(***************************************************************************)
CellIds == <<"B0029", "B0030">>

Cells == Range(CellIds)

CellPos(c) == CHOOSE k \in 1..Len(CellIds) : CellIds[k] = c

\* (cell_id, cycle_index) keys in the order groupby(..., sort=True) visits them.
KeyLess(a, b) ==
    \/ CellPos(a[1]) < CellPos(b[1])
    \/ a[1] = b[1] /\ a[2] < b[2]

KeyOf(r) == <<r.cell_id, r.cycle_index>>

Keys(df) == {KeyOf(df[k]) : k \in 1..Len(df)}

RECURSIVE SortKeys(_)
SortKeys(ks) ==
    IF ks = {} THEN <<>>
    ELSE LET m == CHOOSE a \in ks : \A b \in ks \ {a} : KeyLess(a, b)
         IN  <<m>> \o SortKeys(ks \ {m})

\* The rows of one group, in storage order.
Group(df, key) == SelectSeq(df, LAMBDA r : KeyOf(r) = key)

Perms(n) == {p \in [1..n -> 1..n] : \A i, j \in 1..n : i # j => p[i] # p[j]}

\* df.sort_values("t_index"): the default sort is not stable, so rows with the
\* same t_index may come out in any order.  The set of possible results.
SortValuesT(df) ==
    {[k \in 1..Len(df) |-> df[p[k]]] : p \in
        {q \in Perms(Len(df)) :
            \A k \in 1..(Len(df) - 1) : df[q[k]].t_index <= df[q[k + 1]].t_index}}

\* Mutant of SortedTIndex: the t_index column in storage order, the sort left out.
StoredTIndex(df) == [k \in 1..Len(df) |-> df[k].t_index]

\* The t_index column after sort_values: the same for every possible result.
SortedTIndex(df) ==
    LET o == CHOOSE o \in SortValuesT(df) : TRUE
    IN  [k \in 1..Len(df) |-> o[k].t_index]

(***************************************************************************)
(* generate_section_iv_artifacts.py                                        *)
(***************************************************************************)

\* Mutant of RankAverage: rank(method="min"), equal values all take the lowest position.
RankMin(s) ==
    [k \in 1..Len(s) |->
        IF IsNaN(s[k]) THEN NaN
        ELSE Int2Rat(Cardinality({j \in 1..Len(s) : RLt(s[j], s[k])}) + 1)]

\* Series.rank(method="average"): the mean of the positions the equal values
\* occupy; a NaN keeps a NaN rank and is not counted among the others.
RankAverage(s) ==
    [k \in 1..Len(s) |->
        IF IsNaN(s[k]) THEN NaN
        ELSE LET less == Cardinality({j \in 1..Len(s) : RLt(s[j], s[k])})
                 eq   == Cardinality({j \in 1..Len(s) : REq(s[j], s[k])})
             IN  Rat(2 * less + eq + 1, 2)]

\* np.mean of an ndarray: NaN propagates.
NpMean(s) == RDiv(RSum(s), Int2Rat(Len(s)))

Center(s) == LET m == NpMean(s) IN [k \in 1..Len(s) |-> RSub(s[k], m)]

Dot(a, b) == RSum([k \in 1..Len(a) |-> RMul(a[k], b[k])])

CorrNaN == [sign |-> 0, sq |-> NaN]

\* spearman_corr(x, y).  The result num / sqrt(sx * sy) is kept as its sign and
\* its square, num^2 / (sx * sy).
spearman_corr(xs, ys) ==
    LET rx == RankAverage(xs)
        ry == RankAverage(ys)
    IN  IF Len(rx) < 3 THEN CorrNaN
        ELSE LET cx   == Center(rx)
                 cy   == Center(ry)
                 den2 == RMul(Dot(cx, cx), Dot(cy, cy))
                 num  == Dot(cx, cy)
             IN  IF REq(den2, Zero) THEN CorrNaN
                 ELSE IF IsNaN(den2) \/ IsNaN(num) THEN CorrNaN
                 ELSE [sign |-> IF num.n > 0 THEN 1 ELSE IF num.n < 0 THEN -1 ELSE 0,
                       sq   |-> RDiv(RMul(num, num), den2)]

\* Mutant of NegSteps: np.diff(v) <= 0, a step of equal voltages counted as a drop.
NonPosSteps(v) == [k \in 1..(Len(v) - 1) |-> IF RLe(RSub(v[k + 1], v[k]), Zero) THEN 1 ELSE 0]

\* np.diff(v) < 0, as 0/1.
NegSteps(v) == [k \in 1..(Len(v) - 1) |-> IF RLt(RSub(v[k + 1], v[k]), Zero) THEN 1 ELSE 0]

voltage_monotonic_fraction(v) ==
    IF Len(v) < 2 THEN NaN
    ELSE Rat(ISum(NegSteps(v)), Len(v) - 1)

\* The cell's rows, in storage order.
CellRows(df, cell_id) == SelectSeq(df, LAMBDA r : r.cell_id = cell_id)

\* Mutant of MinCycle: the largest cycle index.
MaxCycle(df) ==
    CHOOSE c \in {df[k].cycle_index : k \in 1..Len(df)} :
        \A k \in 1..Len(df) : c >= df[k].cycle_index

MinCycle(df) ==
    CHOOSE c \in {df[k].cycle_index : k \in 1..Len(df)} :
        \A k \in 1..Len(df) : c <= df[k].cycle_index

\* pick_representative_discharge_cycle, for a cell with discharge samples: the
\* possible (cycle_idx, cyc) results.
pick_representative_discharge_cycle(df, cell_id) ==
    LET sub       == CellRows(df, cell_id)
        cycle_idx == MinCycle(sub)
    IN  {[cycle_idx |-> cycle_idx, cyc |-> o] :
            o \in SortValuesT(SelectSeq(sub, LAMBDA r : r.cycle_index = cycle_idx))}

\* np.any(np.diff(t) <= 0)
AnyNonPositiveStep(t) == \E k \in 1..(Len(t) - 1) : t[k + 1] - t[k] <= 0

\* Mutant of CountViolations: a sample-level count, one for every violating step.
RECURSIVE CountViolatingSteps(_, _)
CountViolatingSteps(df, keys) ==
    IF keys = <<>> THEN 0
    ELSE LET t == SortedTIndex(Group(df, Head(keys)))
         IN  Cardinality({k \in 1..(Len(t) - 1) : t[k + 1] - t[k] <= 0})
             + CountViolatingSteps(df, Tail(keys))

RECURSIVE CountViolations(_, _)
CountViolations(df, keys) ==
    IF keys = <<>> THEN 0
    ELSE (IF AnyNonPositiveStep(SortedTIndex(Group(df, Head(keys)))) THEN 1 ELSE 0)
         + CountViolations(df, Tail(keys))

time_monotonicity_violations(df) == CountViolations(df, SortKeys(Keys(df)))

\* np.min / np.max of an ndarray: a NaN entry makes the result NaN.
NpMin(s) ==
    IF \E k \in 1..Len(s) : IsNaN(s[k]) THEN NaN
    ELSE CHOOSE m \in Range(s) : \A k \in 1..Len(s) : RLe(m, s[k])

NpMax(s) ==
    IF \E k \in 1..Len(s) : IsNaN(s[k]) THEN NaN
    ELSE CHOOSE m \in Range(s) : \A k \in 1..Len(s) : RLe(s[k], m)

\* np.nanmax: the NaN entries are left out; all NaN gives NaN (with a warning).
NpNanMax(s) == IF DropNaN(s) = <<>> THEN NaN ELSE NpMax(DropNaN(s))

\* np.std(i, ddof=1), kept as its radicand: sum((i - mean)^2) / (n - 1).
StdDdof1Radicand(s) ==
    LET c == Center(s) IN RDiv(Dot(c, c), Int2Rat(Len(s) - 1))

\* The record discharge_cycle_level_stats appends for one group, df being the
\* group after sort_values("t_index").  i_std_A holds the radicand of the
\* standard deviation (its square).
StatsRecord(key, df) ==
    LET i    == [k \in 1..Len(df) |-> df[k].Current_measured]
        v    == [k \in 1..Len(df) |-> df[k].Voltage_measured]
        temp == [k \in 1..Len(df) |-> df[k].Temperature_measured]
        cap  == [k \in 1..Len(df) |-> df[k].Capacity]
    IN  [cell_id     |-> key[1],
         cycle_index |-> key[2],
         n_samples   |-> Len(df),
         i_mean_A    |-> NpMean(i),
         i_std_A     |-> IF Len(i) > 1 THEN StdDdof1Radicand(i) ELSE NaN,
         v_mono_frac |-> voltage_monotonic_fraction(v),
         t_min_C     |-> NpMin(temp),
         t_max_C     |-> NpMax(temp),
         cap_max_Ah  |-> NpNanMax(cap)]

RECURSIVE StatsRows(_, _)
StatsRows(df, keys) ==
    IF keys = <<>> THEN {<<>>}
    ELSE {<<r>> \o rest :
            r \in {StatsRecord(Head(keys), o) : o \in SortValuesT(Group(df, Head(keys)))},
            rest \in StatsRows(df, Tail(keys))}

\* The keys in the order their first rows are stored.
RECURSIVE KeysAsStored(_)
KeysAsStored(df) ==
    IF df = <<>> THEN <<>>
    ELSE <<KeyOf(Head(df))>>
         \o KeysAsStored(SelectSeq(Tail(df), LAMBDA r : KeyOf(r) # KeyOf(Head(df))))

\* Mutant of discharge_cycle_level_stats: groupby(..., sort=False).
discharge_cycle_level_stats_unsorted(df) == StatsRows(df, KeysAsStored(df))

\* discharge_cycle_level_stats: the possible tables (one for each way the
\* unstable sort may order equal t_index values).
discharge_cycle_level_stats(df) == StatsRows(df, SortKeys(Keys(df)))

\* Mutant of NonPosCount: (imp[col] < 0).sum(), zero not counted.
NegCount(col) == Cardinality({k \in 1..Len(col) : RLt(col[k], Zero)})

\* (imp[col] <= 0).sum()
NonPosCount(col) == Cardinality({k \in 1..Len(col) : RLe(col[k], Zero)})

impedance_positivity(tbl) ==
    [impedance_rows   |-> Len(tbl),
     re_nonpos_count  |-> NonPosCount([k \in 1..Len(tbl) |-> tbl[k].Re]),
     rct_nonpos_count |-> NonPosCount([k \in 1..Len(tbl) |-> tbl[k].Rct])]

\* Mutant of SeriesMean: np.mean of the underlying ndarray, which a NaN makes NaN.
SeriesMeanKeepNaN(s) == NpMean(s)

\* np.mean of a pandas Series: Series.mean, which skips NaN; NaN if none is left.
SeriesMean(s) ==
    IF DropNaN(s) = <<>> THEN NaN
    ELSE RDiv(RSum(DropNaN(s)), Int2Rat(Len(DropNaN(s))))

RECURSIVE SortRat(_)
SortRat(s) ==
    IF s = <<>> THEN <<>>
    ELSE LET k == CHOOSE k \in 1..Len(s) : \A j \in 1..Len(s) : RLe(s[k], s[j])
         IN  <<s[k]>> \o SortRat([j \in 1..(Len(s) - 1) |-> IF j < k THEN s[j] ELSE s[j + 1]])

MedianNaN == [lo |-> NaN, hi |-> NaN]

\* np.nanmedian of radicands: the value (sqrt(lo) + sqrt(hi)) / 2 of the middle
\* one (lo = hi) or two of the sorted non-NaN entries; all NaN gives NaN.
NanMedian(s) ==
    LET t == SortRat(DropNaN(s))
        n == Len(t)
    IN  IF n = 0 THEN MedianNaN
        ELSE IF n % 2 = 1 THEN [lo |-> t[(n + 1) \div 2], hi |-> t[(n + 1) \div 2]]
        ELSE [lo |-> t[n \div 2], hi |-> t[n \div 2 + 1]]

\* sub.sort_values("cycle_index") of one cell's statistics rows.
RECURSIVE SortByCycle(_)
SortByCycle(s) ==
    IF s = <<>> THEN <<>>
    ELSE LET k == CHOOSE k \in 1..Len(s) :
                    /\ \A j \in 1..Len(s) : s[k].cycle_index <= s[j].cycle_index
                    /\ \A j \in 1..(k - 1) : s[j].cycle_index # s[k].cycle_index
         IN  <<s[k]>> \o SortByCycle([j \in 1..(Len(s) - 1) |-> IF j < k THEN s[j] ELSE s[j + 1]])

\* The row build_cell_summary_table appends for one cell.
SummaryRow(cell, stats, tv, ip) ==
    LET sub == SortByCycle(CellRows(stats, cell))
    IN  [Cell                  |-> cell,
         N_discharge_cycles    |-> Cardinality({sub[k].cycle_index : k \in 1..Len(sub)}),
         I_mean_A              |-> SeriesMean([k \in 1..Len(sub) |-> sub[k].i_mean_A]),
         I_std_median_A        |-> NanMedian([k \in 1..Len(sub) |-> sub[k].i_std_A]),
         V_monotonic_frac_mean |-> SeriesMean([k \in 1..Len(sub) |-> sub[k].v_mono_frac]),
         Tmin_mean_C           |-> SeriesMean([k \in 1..Len(sub) |-> sub[k].t_min_C]),
         Tmax_mean_C           |-> SeriesMean([k \in 1..Len(sub) |-> sub[k].t_max_C]),
         capacity_cycle_monotonicity_indicator |->
             spearman_corr([k \in 1..Len(sub) |-> Int2Rat(sub[k].cycle_index)],
                           [k \in 1..Len(sub) |-> sub[k].cap_max_Ah]),
         TimeMonotonicityViolations_allCells |-> tv,
         Re_nonpos_allRows     |-> ip.re_nonpos_count,
         Rct_nonpos_allRows    |-> ip.rct_nonpos_count,
         Impedance_rows        |-> ip.impedance_rows]

\* The cells of a table in the order groupby("cell_id", sort=True) visits them.
SortedCells(df) ==
    SelectSeq(CellIds, LAMBDA c : \E k \in 1..Len(df) : df[k].cell_id = c)

\* Mutant of build_cell_summary_table: the counters of the row's cell alone.
build_cell_summary_table_per_cell(stats, df, tbl) ==
    LET cells == SortedCells(stats)
    IN  [k \in 1..Len(cells) |->
            SummaryRow(cells[k], stats,
                       time_monotonicity_violations(CellRows(df, cells[k])),
                       impedance_positivity(CellRows(tbl, cells[k])))]

\* build_cell_summary_table, for a statistics table with at least one row.
build_cell_summary_table(stats, df, tbl) ==
    LET tv    == time_monotonicity_violations(df)
        ip    == impedance_positivity(tbl)
        cells == SortedCells(stats)
    IN  [k \in 1..Len(cells) |-> SummaryRow(cells[k], stats, tv, ip)]

(***************************************************************************)
(* sanity_check_parquet_physical_v1.py                                     *)
(***************************************************************************)

\* np.mean(np.diff(idx) <= 0)
FracNonIncreasing(idx) ==
    Rat(Cardinality({k \in 1..(Len(idx) - 1) : idx[k + 1] - idx[k] <= 0}), Len(idx) - 1)

\* CHECK 2: the list time_viol of (cell, cyc, frac_non_inc).
RECURSIVE SanityTimeViol(_, _)
SanityTimeViol(df, keys) ==
    IF keys = <<>> THEN <<>>
    ELSE LET idx == SortedTIndex(Group(df, Head(keys)))
         IN  (IF Len(idx) > 1 /\ RLt(Zero, FracNonIncreasing(idx))
                THEN <<[cell |-> Head(keys)[1], cyc |-> Head(keys)[2],
                        frac_non_inc |-> FracNonIncreasing(idx)]>>
                ELSE <<>>)
             \o SanityTimeViol(df, Tail(keys))

sanity_check2(df) == SanityTimeViol(df, SortKeys(Keys(df)))

\* CHECK 6: the two counts printed.
sanity_check6(tbl) ==
    [re_nonpos  |-> NonPosCount([k \in 1..Len(tbl) |-> tbl[k].Re]),
     rct_nonpos |-> NonPosCount([k \in 1..Len(tbl) |-> tbl[k].Rct]),
     rows       |-> Len(tbl)]

(***************************************************************************)
(* Inputs.                                                                 *)
(***************************************************************************)
CycleIndexes == {1, 2}

TIndexes == {0, 1}

\* One discharge sample of a nominal constant-current discharge: the voltage
\* falls and the temperature rises with t_index, the capacity fades with the cycle.
NominalSample(cell, cyc, t) ==
    [cell_id |-> cell, cycle_index |-> cyc, t_index |-> t,
     Current_measured     |-> Int2Rat(-2),
     Voltage_measured     |-> Rat(42 - t, 10),
     Temperature_measured |-> Int2Rat(24 + t),
     Capacity             |-> Rat(20 - cyc, 10)]

NominalSamples == {NominalSample(c, cyc, t) : c \in Cells, cyc \in CycleIndexes, t \in TIndexes}

\* Two readings that differ in every column; the first has no capacity.
Readings ==
    {[Current_measured |-> Int2Rat(-2), Voltage_measured |-> Rat(42, 10),
      Temperature_measured |-> Int2Rat(24), Capacity |-> NaN],
     [Current_measured |-> Rat(-19, 10), Voltage_measured |-> Rat(41, 10),
      Temperature_measured |-> Int2Rat(25), Capacity |-> Rat(18, 10)]}

MeasuredSamples ==
    {[cell_id |-> c, cycle_index |-> cyc, t_index |-> t,
      Current_measured     |-> r.Current_measured,
      Voltage_measured     |-> r.Voltage_measured,
      Temperature_measured |-> r.Temperature_measured,
      Capacity             |-> r.Capacity] :
        c \in Cells, cyc \in CycleIndexes, t \in TIndexes, r \in Readings}

\* Nominal samples over a longer time axis, for the selection of one cycle.
LongerNominalSamples ==
    {NominalSample(c, cyc, t) : c \in Cells, cyc \in CycleIndexes, t \in TIndexes \cup {2}}

\* The columns of a sample that the statistics, the checks and the selection read.
MeasurementColumns ==
    {"cell_id", "cycle_index", "t_index", "Current_measured", "Voltage_measured",
     "Temperature_measured", "Capacity"}

\* The columns measurements_raw may have: with or without the Time column that
\* plot_discharge_profile reads for its time axis.
ColumnSets == {MeasurementColumns, MeasurementColumns \cup {"Time"}}

\* The sequences over S of length at most n: tables in every storage order.
SeqsUpTo(S, n) == UNION {[1..k -> S] : k \in 0..n}

\* Cell B0029, one cycle, t_index 0..3, voltages 4.2, 4.1, 4.05, 4.0, stored
\* out of time order.
ExampleDischarge ==
    LET row(t, v) == [cell_id |-> "B0029", cycle_index |-> 1, t_index |-> t,
                      Current_measured |-> Int2Rat(-2), Voltage_measured |-> Rat(v, 100),
                      Temperature_measured |-> Int2Rat(24), Capacity |-> Rat(18, 10)]
    IN  <<row(2, 405), row(0, 420), row(3, 400), row(1, 410)>>

ImpedanceRows ==
    {[cell_id |-> c, Re |-> re, Rct |-> rct] :
        c \in Cells, re \in {Rat(-1, 100), Zero, Rat(5, 100)}, rct \in {Zero, Rat(7, 100)}}

\* Re = 0.05, -0.01, 0.03
ExampleImpedance ==
    <<[cell_id |-> "B0029", Re |-> Rat(5, 100), Rct |-> Rat(7, 100)],
      [cell_id |-> "B0029", Re |-> Rat(-1, 100), Rct |-> Rat(-2, 100)],
      [cell_id |-> "B0030", Re |-> Rat(3, 100), Rct |-> Zero]>>

ImpedanceTables == {<<>>, ExampleImpedance}

XValues == {Int2Rat(1), Int2Rat(2), Int2Rat(3)}

YValues == XValues \cup {NaN}

NoError == [type |-> "none", arg |-> ""]

NoReturn == [impedance_rows |-> -1, re_nonpos_count |-> -1, rct_nonpos_count |-> -1]

SanityStart == [pc |-> "check2", time_viol |-> <<>>, re_nonpos |-> -1, rct_nonpos |-> -1]

\* What every specification starts from: nothing computed, nothing written.
Blank ==
    /\ cycle_stats = <<>>
    /\ rep_cycle_idx = -1
    /\ rep_df = <<>>
    /\ cell_summary = <<>>
    /\ global_evidence = <<>>
    /\ saved = {}
    /\ error = NoError
    /\ time_viol = -1
    /\ imp_pos = NoReturn
    /\ sanity = SanityStart
    /\ corr = CorrNaN

(***************************************************************************)
(* main of generate_section_iv_artifacts.py, from the discharge selection  *)
(* (line 198) on: the three Parquet files exist and have been read.  An    *)
(* exception ends the run (pc = "failed"); nothing in main catches one.    *)
(***************************************************************************)
Init ==
    /\ pc = "stats"
    /\ meas_dis \in SeqsUpTo(NominalSamples, MaxSamples)
    /\ meas_columns \in ColumnSets
    /\ imp \in ImpedanceTables
    /\ rep_cell \in Cells
    /\ x = <<>>
    /\ y = <<>>
    /\ Blank

Fail(type, arg) ==
    /\ pc' = "failed"
    /\ error' = [type |-> type, arg |-> arg]

\* line 203
CycleStats ==
    /\ pc = "stats"
    /\ \E cs \in discharge_cycle_level_stats(meas_dis) : cycle_stats' = cs
    /\ pc' = "fig_capacity"
    /\ UNCHANGED <<meas_dis, meas_columns, imp, rep_cell, rep_cycle_idx, rep_df, cell_summary,
                   global_evidence, saved, error, time_viol, imp_pos, sanity, x, y, corr>>

\* lines 208-210.  A table built from no rows has no cell_id column to group by.
PlotCapacityFade ==
    /\ pc = "fig_capacity"
    /\ IF cycle_stats = <<>>
         THEN Fail("KeyError", "cell_id") /\ UNCHANGED saved
         ELSE /\ saved' = saved \cup {"fig_capacity"}
              /\ pc' = "pick"
              /\ UNCHANGED error
    /\ UNCHANGED <<meas_dis, meas_columns, imp, rep_cell, cycle_stats, rep_cycle_idx, rep_df, cell_summary,
                   global_evidence, time_viol, imp_pos, sanity, x, y, corr>>

\* Mutant of PickRepresentative: the failure is reported and the run goes on to
\* the evidence tables without the profile.
PickRepresentativeOrSkip ==
    /\ pc = "pick"
    /\ IF CellRows(meas_dis, rep_cell) = <<>>
         THEN /\ error' = [type |-> "ValueError", arg |-> rep_cell]
              /\ pc' = "summary"
              /\ UNCHANGED <<rep_cycle_idx, rep_df>>
         ELSE /\ \E r \in pick_representative_discharge_cycle(meas_dis, rep_cell) :
                    /\ rep_cycle_idx' = r.cycle_idx
                    /\ rep_df' = r.cyc
              /\ pc' = "fig_discharge"
              /\ UNCHANGED error
    /\ UNCHANGED <<meas_dis, meas_columns, imp, rep_cell, cycle_stats, cell_summary,
                   global_evidence, saved, time_viol, imp_pos, sanity, x, y, corr>>

\* line 212
PickRepresentative ==
    /\ pc = "pick"
    /\ IF CellRows(meas_dis, rep_cell) = <<>>
         THEN Fail("ValueError", rep_cell) /\ UNCHANGED <<rep_cycle_idx, rep_df>>
         ELSE /\ \E r \in pick_representative_discharge_cycle(meas_dis, rep_cell) :
                    /\ rep_cycle_idx' = r.cycle_idx
                    /\ rep_df' = r.cyc
              /\ pc' = "fig_discharge"
              /\ UNCHANGED error
    /\ UNCHANGED <<meas_dis, meas_columns, imp, rep_cell, cycle_stats, cell_summary,
                   global_evidence, saved, time_viol, imp_pos, sanity, x, y, corr>>

\* lines 213-215, plot_discharge_profile.  The time axis is the column Time of
\* the selected rows, which have the columns of measurements_raw; without that
\* column the read raises KeyError and no figure is written.
PlotDischargeProfile ==
    /\ pc = "fig_discharge"
    /\ IF "Time" \in meas_columns
         THEN /\ saved' = saved \cup {"fig_discharge"}
              /\ pc' = "summary"
              /\ UNCHANGED error
         ELSE Fail("KeyError", "Time") /\ UNCHANGED saved
    /\ UNCHANGED <<meas_dis, meas_columns, imp, rep_cell, cycle_stats, rep_cycle_idx, rep_df, cell_summary,
                   global_evidence, time_viol, imp_pos, sanity, x, y, corr>>

\* lines 218-221
BuildCellSummary ==
    /\ pc = "summary"
    /\ cell_summary' = build_cell_summary_table(cycle_stats, meas_dis, imp)
    /\ saved' = saved \cup {"table_summary_csv"}
    /\ pc' = "evidence"
    /\ UNCHANGED <<meas_dis, meas_columns, imp, rep_cell, cycle_stats, rep_cycle_idx, rep_df,
                   global_evidence, error, time_viol, imp_pos, sanity, x, y, corr>>

\* lines 225-239
ExportEvidence ==
    /\ pc = "evidence"
    /\ global_evidence' =
          [discharge_samples       |-> Len(meas_dis),
           unique_discharge_cycles |-> Cardinality(Keys(meas_dis)),
           time_monotonicity_violations_allCells |-> time_monotonicity_violations(meas_dis),
           impedance               |-> impedance_positivity(imp),
           rep_cell                |-> rep_cell,
           rep_cycle_index         |-> rep_cycle_idx,
           rep_cycle_samples       |-> Len(rep_df)]
    /\ saved' = saved \cup {"evidence_json"}
    /\ pc' = "done"
    /\ UNCHANGED <<meas_dis, meas_columns, imp, rep_cell, cycle_stats, rep_cycle_idx, rep_df, cell_summary,
                   error, time_viol, imp_pos, sanity, x, y, corr>>

Next ==
    \/ CycleStats
    \/ PlotCapacityFade
    \/ PickRepresentative
    \/ PlotDischargeProfile
    \/ BuildCellSummary
    \/ ExportEvidence

Spec == Init /\ [][Next]_vars

(***************************************************************************)
(* The consistency checks, called on any discharge table and any impedance *)
(* table: time_monotonicity_violations and impedance_positivity of the     *)
(* evidence script, CHECK 2 and CHECK 6 of the sanity script (which runs   *)
(* its checks in order).                                                   *)
(***************************************************************************)
InitChecks ==
    /\ pc = "checks"
    /\ \/ meas_dis \in SeqsUpTo(NominalSamples, MaxSamples) /\ imp = ExampleImpedance
       \/ meas_dis = ExampleDischarge /\ imp \in SeqsUpTo(ImpedanceRows, MaxImpRows)
    /\ meas_columns = MeasurementColumns
    /\ rep_cell = "B0029"
    /\ x = <<>>
    /\ y = <<>>
    /\ Blank

TimeMonotonicityViolations ==
    /\ pc = "checks"
    /\ time_viol = -1
    /\ time_viol' = time_monotonicity_violations(meas_dis)
    /\ UNCHANGED <<pc, meas_dis, meas_columns, imp, rep_cell, cycle_stats, rep_cycle_idx, rep_df, cell_summary,
                   global_evidence, saved, error, imp_pos, sanity, x, y, corr>>

ImpedancePositivity ==
    /\ pc = "checks"
    /\ imp_pos = NoReturn
    /\ imp_pos' = impedance_positivity(imp)
    /\ UNCHANGED <<pc, meas_dis, meas_columns, imp, rep_cell, cycle_stats, rep_cycle_idx, rep_df, cell_summary,
                   global_evidence, saved, error, time_viol, sanity, x, y, corr>>

\* sanity script, lines 56-67
SanityCheck2 ==
    /\ pc = "checks"
    /\ sanity.pc = "check2"
    /\ sanity' = [sanity EXCEPT !.pc = "check6", !.time_viol = sanity_check2(meas_dis)]
    /\ UNCHANGED <<pc, meas_dis, meas_columns, imp, rep_cell, cycle_stats, rep_cycle_idx, rep_df, cell_summary,
                   global_evidence, saved, error, time_viol, imp_pos, x, y, corr>>

\* sanity script, lines 127-132
SanityCheck6 ==
    /\ pc = "checks"
    /\ sanity.pc = "check6"
    /\ sanity' = [sanity EXCEPT !.pc = "complete",
                                !.re_nonpos = sanity_check6(imp).re_nonpos,
                                !.rct_nonpos = sanity_check6(imp).rct_nonpos]
    /\ UNCHANGED <<pc, meas_dis, meas_columns, imp, rep_cell, cycle_stats, rep_cycle_idx, rep_df, cell_summary,
                   global_evidence, saved, error, time_viol, imp_pos, x, y, corr>>

NextChecks ==
    \/ TimeMonotonicityViolations
    \/ ImpedancePositivity
    \/ SanityCheck2
    \/ SanityCheck6

SpecChecks == InitChecks /\ [][NextChecks]_vars

(***************************************************************************)
(* discharge_cycle_level_stats and build_cell_summary_table, called on any *)
(* discharge table.                                                        *)
(***************************************************************************)
InitStats ==
    /\ pc = "call_stats"
    /\ \/ meas_dis \in SeqsUpTo(MeasuredSamples, MaxSamples)
       \/ meas_dis = ExampleDischarge
    /\ imp = ExampleImpedance
    /\ meas_columns = MeasurementColumns
    /\ rep_cell = "B0029"
    /\ x = <<>>
    /\ y = <<>>
    /\ Blank

StatsCall ==
    /\ pc = "call_stats"
    /\ \E cs \in discharge_cycle_level_stats(meas_dis) : cycle_stats' = cs
    /\ pc' = "call_summary"
    /\ UNCHANGED <<meas_dis, meas_columns, imp, rep_cell, rep_cycle_idx, rep_df, cell_summary,
                   global_evidence, saved, error, time_viol, imp_pos, sanity, x, y, corr>>

\* A table built from no rows has no cell_id column to group by (line 123).
SummaryCall ==
    /\ pc = "call_summary"
    /\ IF cycle_stats = <<>>
         THEN Fail("KeyError", "cell_id") /\ UNCHANGED cell_summary
         ELSE /\ cell_summary' = build_cell_summary_table(cycle_stats, meas_dis, imp)
              /\ pc' = "returned"
              /\ UNCHANGED error
    /\ UNCHANGED <<meas_dis, meas_columns, imp, rep_cell, cycle_stats, rep_cycle_idx, rep_df,
                   global_evidence, saved, time_viol, imp_pos, sanity, x, y, corr>>

NextStats ==
    \/ StatsCall
    \/ SummaryCall

SpecStats == InitStats /\ [][NextStats]_vars

(***************************************************************************)
(* spearman_corr, called on any two sequences of one length.               *)
(***************************************************************************)
InitSpearman ==
    /\ pc = "call_spearman"
    /\ \E n \in 0..MaxPoints :
          /\ x \in [1..n -> XValues]
          /\ y \in [1..n -> YValues]
    /\ meas_dis = <<>>
    /\ imp = <<>>
    /\ meas_columns = MeasurementColumns
    /\ rep_cell = "B0029"
    /\ Blank

SpearmanCall ==
    /\ pc = "call_spearman"
    /\ corr' = spearman_corr(x, y)
    /\ pc' = "returned"
    /\ UNCHANGED <<meas_dis, meas_columns, imp, rep_cell, cycle_stats, rep_cycle_idx, rep_df, cell_summary,
                   global_evidence, saved, error, time_viol, imp_pos, sanity, x, y>>

NextSpearman == SpearmanCall

SpecSpearman == InitSpearman /\ [][NextSpearman]_vars

(***************************************************************************)
(* pick_representative_discharge_cycle, called on any discharge table and  *)
(* any cell.                                                               *)
(***************************************************************************)
InitPick ==
    /\ pc = "call_pick"
    /\ meas_dis \in SeqsUpTo(LongerNominalSamples, MaxSamples)
    /\ imp = <<>>
    /\ meas_columns = MeasurementColumns
    /\ rep_cell \in Cells
    /\ x = <<>>
    /\ y = <<>>
    /\ Blank

PickCall ==
    /\ pc = "call_pick"
    /\ IF CellRows(meas_dis, rep_cell) = <<>>
         THEN Fail("ValueError", rep_cell) /\ UNCHANGED <<rep_cycle_idx, rep_df>>
         ELSE /\ \E r \in pick_representative_discharge_cycle(meas_dis, rep_cell) :
                    /\ rep_cycle_idx' = r.cycle_idx
                    /\ rep_df' = r.cyc
              /\ pc' = "returned"
              /\ UNCHANGED error
    /\ UNCHANGED <<meas_dis, meas_columns, imp, rep_cell, cycle_stats, cell_summary,
                   global_evidence, saved, time_viol, imp_pos, sanity, x, y, corr>>

NextPick == PickCall

SpecPick == InitPick /\ [][NextPick]_vars

(***************************************************************************)
(* Properties of the consistency checks (SpecChecks).                      *)
(***************************************************************************)

\* The positions of the rows of one partition.
RowsOf(key) == {k \in 1..Len(meas_dis) : KeyOf(meas_dis[k]) = key}

\* The steps of the time-sorted partition whose difference is not positive.
ViolatingSteps(key) ==
    LET t == CHOOSE t \in {[k \in 1..Len(o) |-> o[k].t_index] :
                              o \in SortValuesT(Group(meas_dis, key))} : TRUE
    IN  {k \in 1..(Len(t) - 1) : t[k + 1] - t[k] <= 0}

\* The partitions with at least one non-positive step after sorting.
ViolatingPartitions == {key \in Keys(meas_dis) : ViolatingSteps(key) # {}}

\* C1: time_monotonicity_violations returns the number of (cell_id, cycle_index)
\* partitions with at least one non-positive consecutive difference of the sorted
\* t_index; a partition counts once however many such steps it has, so the result
\* lies between 0 and the number of partitions.
C1_PartitionLevelCount ==
    time_viol # -1 =>
        /\ time_viol = Cardinality(ViolatingPartitions)
        /\ time_viol >= 0
        /\ time_viol <= Cardinality(Keys(meas_dis))

\* A partition with two violating steps: the count is 1.
C1_Witness ==
    /\ time_viol = 1
    /\ \E key \in Keys(meas_dis) : Cardinality(ViolatingSteps(key)) = 2

\* The partitions holding two samples with one t_index.
PartitionsWithRepeatedTIndex ==
    {key \in Keys(meas_dis) :
        \E i, j \in RowsOf(key) : i # j /\ meas_dis[i].t_index = meas_dis[j].t_index}

\* The partition is stored out of time order.
StoredOutOfOrder(key) ==
    \E i, j \in RowsOf(key) : i < j /\ meas_dis[i].t_index > meas_dis[j].t_index

\* C10: a partition is counted exactly when two of its samples share a t_index,
\* so a partition of pairwise distinct t_index values is never counted, in
\* whatever order it is stored; CHECK 2 of the sanity script prints the same count.
C10_CountedIffRepeatedTIndex ==
    /\ time_viol # -1 => time_viol = Cardinality(PartitionsWithRepeatedTIndex)
    /\ sanity.pc # "check2" =>
          /\ Len(sanity.time_viol) = Cardinality(PartitionsWithRepeatedTIndex)
          /\ time_viol # -1 => Len(sanity.time_viol) = time_viol

\* A partition stored out of time order with distinct t_index values is not
\* counted by either script.
C10_Witness ==
    /\ time_viol = 0
    /\ sanity.pc # "check2"
    /\ Len(sanity.time_viol) = 0
    /\ \E key \in Keys(meas_dis) : StoredOutOfOrder(key)

\* C7: impedance_positivity counts, over all rows whatever their cell, the rows
\* with Re <= 0 and the rows with Rct <= 0, each on its own: zero is counted, and
\* each count lies between 0 and impedance_rows, the number of rows.  Re = 0.05,
\* -0.01, 0.03 counts 1.  CHECK 6 of the sanity script prints the same counts.
C7_ImpedanceCounts ==
    LET re  == {k \in 1..Len(imp) : imp[k].Re.d # 0 /\ imp[k].Re.n <= 0}
        rct == {k \in 1..Len(imp) : imp[k].Rct.d # 0 /\ imp[k].Rct.n <= 0}
    IN  /\ imp_pos # NoReturn =>
              /\ imp_pos.impedance_rows = Len(imp)
              /\ imp_pos.re_nonpos_count = Cardinality(re)
              /\ imp_pos.rct_nonpos_count = Cardinality(rct)
              /\ imp_pos.re_nonpos_count \in 0..imp_pos.impedance_rows
              /\ imp_pos.rct_nonpos_count \in 0..imp_pos.impedance_rows
              /\ imp = ExampleImpedance => imp_pos.re_nonpos_count = 1
        /\ sanity.pc = "complete" =>
              /\ sanity.re_nonpos = Cardinality(re)
              /\ sanity.rct_nonpos = Cardinality(rct)

\* Rows of two cells, one of them with Re = 0 and Rct = 0: it counts in both.
C7_Witness ==
    /\ imp_pos # NoReturn
    /\ sanity.pc = "complete"
    /\ \E k \in 1..Len(imp) : imp[k].Re = Zero /\ imp[k].Rct = Zero
    /\ \E k \in 1..Len(imp) : RLt(Zero, imp[k].Re) /\ RLt(Zero, imp[k].Rct)
    /\ \E j, k \in 1..Len(imp) : imp[j].cell_id # imp[k].cell_id
    /\ imp_pos.re_nonpos_count = 1
    /\ imp_pos.rct_nonpos_count = 1

(***************************************************************************)
(* Properties of the cycle statistics and the summary table (SpecStats).   *)
(***************************************************************************)

\* The statistics have been computed.
StatsReturned == pc \in {"call_summary", "returned"}

\* The ways to put the partition in ascending t_index order.
TimeOrders(key) ==
    {o \in [1..Cardinality(RowsOf(key)) -> RowsOf(key)] :
        /\ \A a, b \in DOMAIN o : a # b => o[a] # o[b]
        /\ \A a, b \in DOMAIN o : a < b => meas_dis[o[a]].t_index <= meas_dis[o[b]].t_index}

\* The consecutive pairs of the ordering whose voltage difference is negative.
Drops(o) ==
    {a \in 1..(Len(o) - 1) :
        LET u == meas_dis[o[a]].Voltage_measured
            w == meas_dis[o[a + 1]].Voltage_measured
        IN  w.n * u.d < u.n * w.d}

\* C5: v_mono_frac of a partition of n samples is NaN when n < 2 and otherwise
\* the number of consecutive pairs in ascending t_index order whose voltage
\* difference is strictly negative, divided by n - 1; it lies in [0, 1] and is 1
\* exactly when the time-ordered voltages are strictly decreasing.  t_index
\* 0, 1, 2, 3 with voltages 4.2, 4.1, 4.05, 4.0 gives 1.
C5_VoltageMonotonicFraction ==
    StatsReturned =>
        /\ \A r \in Range(cycle_stats) :
              LET key == <<r.cell_id, r.cycle_index>>
                  n   == Cardinality(RowsOf(key))
                  f   == r.v_mono_frac
              IN  IF n < 2 THEN f.d = 0
                  ELSE /\ f.d > 0
                       /\ 0 <= f.n /\ f.n <= f.d
                       /\ \E o \in TimeOrders(key) :
                             /\ f.n * (n - 1) = Cardinality(Drops(o)) * f.d
                             /\ f = One <=> Drops(o) = 1..(n - 1)
        /\ meas_dis = ExampleDischarge => cycle_stats[1].v_mono_frac = One

\* The example partition, stored out of time order, gives 1.
C5_Witness ==
    /\ StatsReturned
    /\ meas_dis = ExampleDischarge
    /\ Len(cycle_stats) = 1
    /\ cycle_stats[1].v_mono_frac = One

\* C9: whatever the storage order, discharge_cycle_level_stats emits one record
\* for each (cell_id, cycle_index) pair that has a discharge sample and no other,
\* in lexicographic order of (cell_id, cycle_index), each with n_samples the
\* number of samples of its key; the n_samples add up to the number of samples.
C9_OneRecordPerPartition ==
    StatsReturned =>
        /\ {<<cycle_stats[k].cell_id, cycle_stats[k].cycle_index>> : k \in 1..Len(cycle_stats)}
              = {<<meas_dis[k].cell_id, meas_dis[k].cycle_index>> : k \in 1..Len(meas_dis)}
        /\ \A a, b \in 1..Len(cycle_stats) :
              a < b =>
                 \/ CellPos(cycle_stats[a].cell_id) < CellPos(cycle_stats[b].cell_id)
                 \/ /\ cycle_stats[a].cell_id = cycle_stats[b].cell_id
                    /\ cycle_stats[a].cycle_index < cycle_stats[b].cycle_index
        /\ \A r \in Range(cycle_stats) :
              r.n_samples = Cardinality(RowsOf(<<r.cell_id, r.cycle_index>>))
        /\ ISum([k \in 1..Len(cycle_stats) |-> cycle_stats[k].n_samples]) = Len(meas_dis)

\* Three partitions stored in descending key order come out in ascending order.
C9_Witness ==
    /\ StatsReturned
    /\ Len(meas_dis) = 3
    /\ Len(cycle_stats) = 3
    /\ KeyLess(KeyOf(meas_dis[3]), KeyOf(meas_dis[2]))
    /\ KeyLess(KeyOf(meas_dis[2]), KeyOf(meas_dis[1]))

\* The positions of the cell's records in the statistics table.
RecordsOf(cell) == {k \in 1..Len(cycle_stats) : cycle_stats[k].cell_id = cell}

\* a < b and a <= b on values that are not NaN.
Below(a, b) == a.n * b.d < b.n * a.d

NotAbove(a, b) == a.n * b.d <= b.n * a.d

\* v is the j-th smallest of the values vals[k], k in S, counted with multiplicity.
IsOrderStatistic(v, j, vals, S) ==
    /\ \E k \in S : vals[k] = v
    /\ Cardinality({k \in S : Below(vals[k], v)}) < j
    /\ j <= Cardinality({k \in S : NotAbove(vals[k], v)})

\* C2: a NaN i_std_A or v_mono_frac (a partition of fewer than 2 samples) does
\* not make build_cell_summary_table fail, and is left out of, not counted as
\* zero in, the cell's median and mean: for a cell with a non-NaN value in the
\* column, I_std_median_A is the median and V_monotonic_frac_mean the mean of
\* the non-NaN values alone.
C2_NaNLeftOutOfAggregates ==
    /\ pc = "failed" => cycle_stats = <<>>
    /\ pc = "returned" =>
          \A row \in Range(cell_summary) :
             LET std  == [k \in 1..Len(cycle_stats) |-> cycle_stats[k].i_std_A]
                 frac == [k \in 1..Len(cycle_stats) |-> cycle_stats[k].v_mono_frac]
                 S    == {k \in RecordsOf(row.Cell) : std[k].d # 0}
                 F    == {k \in RecordsOf(row.Cell) : frac[k].d # 0}
                 m    == Cardinality(S)
                 med  == row.I_std_median_A
                 avg  == row.V_monotonic_frac_mean
             IN  /\ S # {} =>
                       /\ IsOrderStatistic(med.lo, (m + 1) \div 2, std, S)
                       /\ IsOrderStatistic(med.hi, m \div 2 + 1, std, S)
                 /\ F # {} =>
                       /\ avg.d > 0
                       /\ \E o \in [1..Cardinality(F) -> F] :
                             /\ \A a, b \in DOMAIN o : a # b => o[a] # o[b]
                             /\ avg = RDiv(RSum([a \in DOMAIN o |-> frac[o[a]]]),
                                           Int2Rat(Cardinality(F)))

\* A cell with a one-sample partition (NaN in both columns) and a partition whose
\* current varies and whose voltage drops: the median and the mean are those of
\* the second partition, not halved by a zero.
C2_Witness ==
    /\ pc = "returned"
    /\ \E row \in Range(cell_summary) :
          /\ \E k \in RecordsOf(row.Cell) :
                IsNaN(cycle_stats[k].i_std_A) /\ IsNaN(cycle_stats[k].v_mono_frac)
          /\ \E k \in RecordsOf(row.Cell) :
                /\ RLt(Zero, cycle_stats[k].i_std_A)
                /\ cycle_stats[k].v_mono_frac = One
                /\ row.I_std_median_A.lo = cycle_stats[k].i_std_A
                /\ row.I_std_median_A.hi = cycle_stats[k].i_std_A
          /\ row.V_monotonic_frac_mean = One

(***************************************************************************)
(* Properties of the representative-cycle selection (SpecPick).            *)
(***************************************************************************)

\* The positions of the samples of the requested cell.
RepRows == {k \in 1..Len(meas_dis) : meas_dis[k].cell_id = rep_cell}

\* C6: pick_representative_discharge_cycle fails with a not-found error exactly
\* when the cell has no discharge sample; otherwise it returns the smallest
\* cycle index among the cell's samples and exactly the samples of that cell and
\* cycle, in ascending t_index order.  The input table is left as it was.
C6_RepresentativeCycle ==
    /\ [](pc = "failed" =>
            /\ RepRows = {}
            /\ error = [type |-> "ValueError", arg |-> rep_cell])
    /\ [](pc = "returned" =>
            /\ RepRows # {}
            /\ \E k \in RepRows : meas_dis[k].cycle_index = rep_cycle_idx
            /\ \A k \in RepRows : rep_cycle_idx <= meas_dis[k].cycle_index
            /\ LET chosen == {k \in RepRows : meas_dis[k].cycle_index = rep_cycle_idx}
               IN  /\ Len(rep_df) = Cardinality(chosen)
                   /\ \E o \in [1..Len(rep_df) -> chosen] :
                         /\ \A a, b \in DOMAIN o : a # b => o[a] # o[b]
                         /\ \A a \in DOMAIN o : rep_df[a] = meas_dis[o[a]]
                   /\ \A a, b \in 1..Len(rep_df) :
                         a < b => rep_df[a].t_index <= rep_df[b].t_index)
    /\ [][meas_dis' = meas_dis]_vars

\* The cell's later cycle is stored first and its first cycle out of time order:
\* the first cycle comes back alone, in time order.
C6_Witness ==
    /\ pc = "returned"
    /\ rep_cycle_idx = 1
    /\ Len(meas_dis) = 3
    /\ meas_dis[1].cell_id = rep_cell /\ meas_dis[1].cycle_index = 2
    /\ meas_dis[2].cell_id = rep_cell /\ meas_dis[2].cycle_index = 1
    /\ meas_dis[3].cell_id = rep_cell /\ meas_dis[3].cycle_index = 1
    /\ meas_dis[2].t_index = 2 /\ meas_dis[3].t_index = 0
    /\ rep_df = <<meas_dis[3], meas_dis[2]>>

(***************************************************************************)
(* Properties of a run of main (Spec).                                     *)
(***************************************************************************)

\* The run has ended.
Ended == pc \in {"failed", "done"}

OtherOutputs == {"fig_capacity", "table_summary_csv", "evidence_json"}

\* C3 as stated: when the requested cell has no discharge sample, the failure is
\* reported with the cell and stops the representative profile only; the capacity
\* figure, the summary table and the evidence record are still written.
C3_AsStated ==
    (Ended /\ RepRows = {} /\ error.type = "ValueError") =>
        /\ "fig_discharge" \notin saved
        /\ error.arg = rep_cell
        /\ OtherOutputs \subseteq saved

\* C3: when the requested cell has no discharge sample the run of main ends in
\* failure and writes neither the representative profile nor the summary table
\* nor the evidence record.  With discharge samples of other cells, the failure
\* is the selection's, reported with the cell, and the capacity figure, written
\* before it, is the only output; with no discharge sample at all the capacity
\* plot fails first and nothing is written.
C3_SelectionFailureEndsRun ==
    (Ended /\ RepRows = {}) =>
        /\ pc = "failed"
        /\ "fig_discharge" \notin saved
        /\ "table_summary_csv" \notin saved
        /\ "evidence_json" \notin saved
        /\ cell_summary = <<>>
        /\ IF meas_dis # <<>>
             THEN /\ error = [type |-> "ValueError", arg |-> rep_cell]
                  /\ saved = {"fig_capacity"}
             ELSE /\ error = [type |-> "KeyError", arg |-> "cell_id"]
                  /\ saved = {}

\* A run on samples of another cell only, ended by the selection.
C3_Witness ==
    /\ pc = "failed"
    /\ meas_dis # <<>>
    /\ RepRows = {}
    /\ error = [type |-> "ValueError", arg |-> rep_cell]
    /\ saved = {"fig_capacity"}

\* C8: the summary table has one row for each cell of the cycle statistics, and
\* every row carries the time-violation count and the impedance counts of the
\* whole input, not of its cell.
C8_CountersBroadcast ==
    pc \in {"evidence", "done"} =>
        /\ {cell_summary[k].Cell : k \in 1..Len(cell_summary)}
              = {cycle_stats[k].cell_id : k \in 1..Len(cycle_stats)}
        /\ \A a, b \in 1..Len(cell_summary) :
              cell_summary[a].Cell = cell_summary[b].Cell => a = b
        /\ \A row \in Range(cell_summary) :
              /\ row.TimeMonotonicityViolations_allCells
                    = Cardinality(PartitionsWithRepeatedTIndex)
              /\ row.Re_nonpos_allRows
                    = Cardinality({k \in 1..Len(imp) : imp[k].Re.d # 0 /\ imp[k].Re.n <= 0})
              /\ row.Rct_nonpos_allRows
                    = Cardinality({k \in 1..Len(imp) : imp[k].Rct.d # 0 /\ imp[k].Rct.n <= 0})
              /\ row.Impedance_rows = Len(imp)

\* Two cells, the time violation in one of them, the impedance rows of both:
\* both rows carry the same counts.
C8_Witness ==
    /\ pc = "done"
    /\ Len(cell_summary) = 2
    /\ \E key \in PartitionsWithRepeatedTIndex : key[1] = "B0029"
    /\ \A key \in PartitionsWithRepeatedTIndex : key[1] = "B0029"
    /\ imp = ExampleImpedance
    /\ \A row \in Range(cell_summary) :
          /\ row.TimeMonotonicityViolations_allCells = 1
          /\ row.Re_nonpos_allRows = 1
          /\ row.Rct_nonpos_allRows = 2

(***************************************************************************)
(* Properties of spearman_corr (SpecSpearman).                             *)
(***************************************************************************)

\* Twice the average-tie rank of s[k] among values none of which is NaN.
Rank2(s, k) ==
    2 * Cardinality({j \in 1..Len(s) : Below(s[j], s[k])})
      + Cardinality({j \in 1..Len(s) : s[j] = s[k]}) + 1

\* The ranks, centred and scaled to integers: 2 * Len(s) * (rank - mean rank).
CentredRank(s, k) ==
    Len(s) * Rank2(s, k) - ISum([j \in 1..Len(s) |-> Rank2(s, j)])

\* The scaled sum of products of the centred ranks of s and t.
RankProduct(s, t) == ISum([k \in 1..Len(s) |-> CentredRank(s, k) * CentredRank(t, k)])

Constant(s) == \A j, k \in 1..Len(s) : s[j] = s[k]

HasNaN(s) == \E k \in 1..Len(s) : s[k].d = 0

\* corr is the Pearson correlation of the average-tie ranks of x and y, a value
\* in [-1, 1]; it is 1 when y rises and falls with x, -1 when it does the opposite.
IsRankCorrelation ==
    LET num == RankProduct(x, y)
        den == RankProduct(x, x) * RankProduct(y, y)
    IN  /\ corr.sq.d > 0
        /\ corr.sq.n * den = num * num * corr.sq.d
        /\ corr.sign = (IF num > 0 THEN 1 ELSE IF num < 0 THEN -1 ELSE 0)
        /\ 0 <= corr.sq.n /\ corr.sq.n <= corr.sq.d
        /\ (\A j, k \in 1..Len(x) : Below(x[j], x[k]) <=> Below(y[j], y[k]))
              => corr = [sign |-> 1, sq |-> One]
        /\ (\A j, k \in 1..Len(x) : Below(x[j], x[k]) <=> Below(y[k], y[j]))
              => corr = [sign |-> -1, sq |-> One]

\* C4 as stated: NaN for fewer than 3 points or a constant sequence, and
\* otherwise the rank correlation, in [-1, 1], 1 for a strictly increasing and -1
\* for a strictly decreasing pair.
C4_AsStated ==
    pc = "returned" =>
        IF Len(x) < 3 \/ Constant(x) \/ Constant(y)
          THEN corr.sq.d = 0
          ELSE IsRankCorrelation

\* C4: spearman_corr returns NaN for fewer than 3 points, for a sequence that
\* holds a NaN and for a constant sequence, and otherwise the Pearson correlation
\* of the average-tie ranks, a value in [-1, 1] that is 1 when y is strictly
\* increasing in x and -1 when y is strictly decreasing in x.
C4_RankCorrelation ==
    pc = "returned" =>
        IF Len(x) < 3 \/ HasNaN(x) \/ HasNaN(y) \/ Constant(x) \/ Constant(y)
          THEN corr = CorrNaN
          ELSE IsRankCorrelation

\* Three points with a tie in y: a correlation strictly between 0 and 1.
C4_Witness ==
    /\ pc = "returned"
    /\ Len(x) = 3
    /\ ~HasNaN(y)
    /\ \E j, k \in 1..Len(y) : j # k /\ y[j] = y[k]
    /\ corr.sign = 1
    /\ corr.sq = Rat(3, 4)

=============================================================================
